---------------------------- MODULE Spec2Model ----------------------------
(***************************************************************************)
(* A model of the decode/execute core of the gb-color CPU interpreter:     *)
(* the register file and flags register (cpu/registers.rs), the operand    *)
(* resolver (cpu/instructions/operands.rs), the two decoders               *)
(* (cpu/instructions/mod.rs and cpu/instructions/parsers.rs), the two      *)
(* snapshots of Add::execute (cpu/instructions/execute.rs and              *)
(* cpu/instructions/instructions_fn.rs) and CpuState (cpu/mod.rs).         *)
(***************************************************************************)
EXTENDS Integers, Sequences, FiniteSets, TLC

VARIABLES
    pc,      \* CpuState.pc (usize)
    sp,      \* CpuState.sp (usize)
    flags,   \* CpuState.flags: Flags(u8)
    regs,    \* CpuState.regs: RawRegisters
    status,  \* "running", or "panicked" once a todo!()/unreachable!() was hit
    bytes,   \* the byte slice of the instruction stream (rom_slice)
    route,   \* the decode path the classifier selected last
    result,  \* the value the last decoder call returned
    steps,   \* the number of calls of CpuState::step so far
    build    \* which snapshot of the instructions module is compiled in

vars == <<pc, sp, flags, regs, status, bytes, route, result, steps, build>>

---------------------------------------------------------------------------
(* Widths of the machine integers.                                         *)

U8Max == 255
U16Max == 65535

Byte == 0..U8Max

(* Bit operations on naturals below 2^16, as the machine computes them.    *)

Pow2(n) == 2^n

RECURSIVE BitAnd(_, _)
BitAnd(x, y) ==
    IF x = 0 \/ y = 0 THEN 0
    ELSE (x % 2) * (y % 2) + 2 * BitAnd(x \div 2, y \div 2)

RECURSIVE BitOr(_, _)
BitOr(x, y) ==
    IF x = 0 THEN y
    ELSE IF y = 0 THEN x
    ELSE (IF (x % 2) + (y % 2) > 0 THEN 1 ELSE 0) + 2 * BitOr(x \div 2, y \div 2)

Not8(x) == U8Max - x
Shl8(x, n) == (x * Pow2(n)) % (U8Max + 1)
Shl16(x, n) == (x * Pow2(n)) % (U16Max + 1)
Shr(x, n) == x \div Pow2(n)
AsU8(x) == x % (U8Max + 1)
BoolAsU8(v) == IF v THEN 1 ELSE 0

---------------------------------------------------------------------------
(* cpu/registers.rs: Flags                                                 *)

FlagNames == {"zero", "subtract", "half_carry", "carry"}

\* impl_flags_struct!(zero: 7, subtract: 6, half_carry: 5, carry: 4)
FlagPos(f) ==
    CASE f = "zero" -> 7
      [] f = "subtract" -> 6
      [] f = "half_carry" -> 5
      [] f = "carry" -> 4

Flags_new == 0

Flags_set_unmasked(val) == val

Flags_set(val) == BitAnd(val, 240)

Flags_clear == 0

flag_get(fl, f) == BitAnd(Shr(fl, FlagPos(f)), 1) = 1

set_flag_no_reset(fl, f, val) == BitOr(fl, Shl8(BoolAsU8(val), FlagPos(f)))

set_flag(fl, f, val) ==
    BitOr(BitAnd(fl, Not8(Shl8(1, FlagPos(f)))), Shl8(BoolAsU8(val), FlagPos(f)))

clear_flag(fl, f) == BitAnd(fl, Not8(Shl8(1, FlagPos(f))))

---------------------------------------------------------------------------
(* cpu/registers.rs: RawRegisters, Reg8, Reg16                             *)

Reg8 == {"acc", "b", "c", "d", "e", "h", "l"}
Pairs == {"bc", "de", "hl"}

High(p) == CASE p = "bc" -> "b" [] p = "de" -> "d" [] p = "hl" -> "h"
Low(p) == CASE p = "bc" -> "c" [] p = "de" -> "e" [] p = "hl" -> "l"

RawRegisters_new ==
    [sp |-> 0, acc |-> 0, b |-> 0, c |-> 0, d |-> 0, e |-> 0, h |-> 0, l |-> 0]

\* Reg8::read / the 8-bit getters
read8(rs, r) == rs[r]

\* Reg8::write / the 8-bit setters
write8(rs, r, val) == [rs EXCEPT ![r] = val]

\* the pair getter: ((self.$high as u16) << 8) | self.$low as u16
pair_get(rs, p) == BitOr(Shl16(rs[High(p)], 8), rs[Low(p)])

pair_set_swapped(rs, p, val) ==
    [rs EXCEPT ![Low(p)] = AsU8(Shr(val, 8)), ![High(p)] = AsU8(BitAnd(val, 255))]

\* the pair setter: low = (val & 0xFF) as u8, high = (val >> 8) as u8
pair_set(rs, p, val) ==
    [rs EXCEPT ![Low(p)] = AsU8(BitAnd(val, 255)), ![High(p)] = AsU8(Shr(val, 8))]

set_sp(rs, val) == [rs EXCEPT !.sp = val]

---------------------------------------------------------------------------
(* cpu/instructions/operands.rs: ArithSource                               *)

Reg(r) == [kind |-> "Reg", reg |-> r, imm |-> 0]
Addr == [kind |-> "Addr", reg |-> "none", imm |-> 0]
Immediate(v) == [kind |-> "Immediate", reg |-> "none", imm |-> v]

from_opcode_swapped(opcode) ==
    LET reg_idx == BitAnd(opcode, 7)
    IN  CASE reg_idx = 0 -> Reg("b")
          [] reg_idx = 1 -> Reg("c")
          [] reg_idx = 2 -> Reg("d")
          [] reg_idx = 3 -> Reg("e")
          [] reg_idx = 4 -> Reg("h")
          [] reg_idx = 5 -> Reg("l")
          [] reg_idx = 6 -> Reg("acc")
          [] reg_idx = 7 -> Addr

\* ArithSource::from_opcode: the three last bits of the opcode
from_opcode(opcode) ==
    LET reg_idx == BitAnd(opcode, 7)
    IN  CASE reg_idx = 0 -> Reg("b")
          [] reg_idx = 1 -> Reg("c")
          [] reg_idx = 2 -> Reg("d")
          [] reg_idx = 3 -> Reg("e")
          [] reg_idx = 4 -> Reg("h")
          [] reg_idx = 5 -> Reg("l")
          [] reg_idx = 6 -> Addr
          [] reg_idx = 7 -> Reg("acc")

\* ArithSource::from_literal
from_literal(val) == Immediate(val)

\* What a call returns: a value, or the abort of a todo!()/unreachable!().
Returned(v) == [panic |-> FALSE, val |-> v]
Aborted == [panic |-> TRUE, val |-> 0]

\* Operand::get_value (execute.rs calls the same resolver as Source::value)
get_value(src, rs) ==
    CASE src.kind = "Immediate" -> Returned(src.imm)
      [] src.kind = "Reg" -> Returned(read8(rs, src.reg))
      [] src.kind = "Addr" -> Aborted

---------------------------------------------------------------------------
(* Decoder results: Result<Instruction, _>, or the abort of a todo!().     *)

NoSrc == [kind |-> "none", reg |-> "none", imm |-> 0]
AddInstr(src) == [tag |-> "Ok", op |-> "Add", src |-> src]
ErrInvalid == [tag |-> "Err", op |-> "Invalid", src |-> NoSrc]
Panic == [tag |-> "Panic", op |-> "todo", src |-> NoSrc]
NoResult == [tag |-> "None", op |-> "none", src |-> NoSrc]
SourceOf(src) == [tag |-> "Source", op |-> "none", src |-> src]

\* A decoder call: the path it took and what it returned.
Call(path, res) == [route |-> path, res |-> res]

BlockName(block) ==
    CASE block = 0 -> "Block0"
      [] block = 1 -> "Block1"
      [] block = 2 -> "Block2"
      [] block = 3 -> "Block3"

(* cpu/instructions/mod.rs                                                 *)

\* parse_block_2_instr
parse_block_2_instr(opcode) ==
    LET instr == Shr(BitAnd(opcode, 56), 3)
    IN  IF instr = 0 THEN AddInstr(from_opcode(opcode)) ELSE Panic

parse_block_3_instr_any_arith(opcode, next) ==
    LET is_arithmetic == BitAnd(opcode, 7) = 6
    IN  IF is_arithmetic
        THEN IF next = << >> THEN ErrInvalid ELSE AddInstr(from_literal(next[1]))
        ELSE Panic

\* parse_block_3_instr; next is rest.first().copied(): << >> or <<byte>>
parse_block_3_instr(opcode, next) ==
    LET is_arithmetic == BitAnd(opcode, 7) = 6
        instr == Shr(BitAnd(opcode, 56), 3)
    IN  IF is_arithmetic
        THEN IF next = << >> THEN ErrInvalid
             ELSE IF instr = 0 THEN AddInstr(from_literal(next[1])) ELSE Panic
        ELSE Panic

\* Instruction::from_bytes
from_bytes(rom_slice) ==
    IF rom_slice = << >> THEN Call("none", ErrInvalid)
    ELSE LET first == rom_slice[1]
             rest == Tail(rom_slice)
             block == Shr(BitAnd(first, 192), 6)
             is_prefixed == first = 203
         IN  IF is_prefixed THEN Call("Prefixed", Panic)
             ELSE CASE block = 0 -> Call("Block0", Panic)
                    [] block = 1 -> Call("Block1", Panic)
                    [] block = 2 -> Call("Block2", parse_block_2_instr(first))
                    [] block = 3 ->
                         Call("Block3",
                              parse_block_3_instr(first, SubSeq(rest, 1, IF rest = << >> THEN 0 ELSE 1)))

(* cpu/instructions/parsers.rs                                             *)

ARITH_INSTR_MASK == 56
ARITH_INSTR_POS == 3
BLOCK_3_INSTR_MASK == 7
BLOCK_3_INSTR_POS == 0

Block0_decode(bs) == Panic
Block1_decode(bs) == Panic
Prefixed_decode(bs) == Panic

Block2_decode(bs) ==
    IF Len(bs) < 1 THEN ErrInvalid
    ELSE LET opcode == bs[1]
             instr == Shr(BitAnd(opcode, ARITH_INSTR_MASK), ARITH_INSTR_POS)
         IN  IF instr = 0 THEN AddInstr(from_opcode(opcode)) ELSE Panic

Block3_decode_unchecked(bs) ==
    IF Len(bs) < 1 THEN ErrInvalid
    ELSE LET opcode == bs[1]
             is_arithmetic ==
                 Shr(BitAnd(opcode, BLOCK_3_INSTR_MASK), BLOCK_3_INSTR_POS) = 6
             instr == Shr(BitAnd(opcode, ARITH_INSTR_MASK), ARITH_INSTR_POS)
         IN  IF is_arithmetic
             THEN IF instr = 0
                  THEN IF Len(bs) < 2 THEN Panic ELSE AddInstr(from_literal(bs[2]))
                  ELSE Panic
             ELSE Panic

Block3_decode(bs) ==
    IF Len(bs) < 2 THEN ErrInvalid
    ELSE LET opcode == bs[1]
             immediate == bs[2]
             is_arithmetic ==
                 Shr(BitAnd(opcode, BLOCK_3_INSTR_MASK), BLOCK_3_INSTR_POS) = 6
             instr == Shr(BitAnd(opcode, ARITH_INSTR_MASK), ARITH_INSTR_POS)
         IN  IF is_arithmetic
             THEN IF instr = 0 THEN AddInstr(from_literal(immediate)) ELSE Panic
             ELSE Panic

InstructionDecoder_from_no_prefix(opcode) ==
    BlockName(Shr(BitAnd(opcode, 192), 6))

\* impl From<Opcode> for InstructionDecoder
InstructionDecoder_from(opcode) ==
    LET block == Shr(BitAnd(opcode, 192), 6)
        is_prefixed == opcode = 203
    IN  IF is_prefixed THEN "Prefixed" ELSE BlockName(block)

\* impl Decode for InstructionDecoder
InstructionDecoder_decode(decoder, rom_slice) ==
    CASE decoder = "Block0" -> Block0_decode(rom_slice)
      [] decoder = "Block1" -> Block1_decode(rom_slice)
      [] decoder = "Block2" -> Block2_decode(rom_slice)
      [] decoder = "Block3" -> Block3_decode(rom_slice)
      [] decoder = "Prefixed" -> Prefixed_decode(rom_slice)

---------------------------------------------------------------------------
(* Add::execute, in its two snapshots. A CPU state is the record           *)
(* [pc, flags, regs, status].                                              *)

Cpu == [pc |-> pc, flags |-> flags, regs |-> regs, status |-> status]

overflowing_add_no_wrap(a, b) ==
    [result |-> IF a + b > U8Max THEN U8Max ELSE a + b, did_overflow |-> a + b > U8Max]

\* u8::overflowing_add
overflowing_add(a, b) ==
    [result |-> (a + b) % (U8Max + 1), did_overflow |-> a + b > U8Max]

\* the width added to the program counter (execute.rs, lines 31-34)
Width(src) ==
    CASE src.kind \in {"Reg", "Addr"} -> 1
      [] src.kind = "Immediate" -> 2

Add_execute_half_carry_kept(c, src) ==
    LET operand == get_value(src, c.regs)
    IN  IF operand.panic THEN [c EXCEPT !.status = "panicked"]
        ELSE LET r == overflowing_add(c.regs.acc, operand.val)
                 f1 == set_flag(c.flags, "zero", r.result = 0)
                 f2 == set_flag(f1, "carry", r.did_overflow)
                 f3 == clear_flag(f2, "subtract")
                 f4 == set_flag_no_reset(f3, "half_carry",
                           BitAnd(r.result, 15) < BitAnd(operand.val, 15))
             IN  [pc |-> c.pc + Width(src), flags |-> f4,
                  regs |-> write8(c.regs, "acc", r.result), status |-> c.status]

Add_execute_half_carry_le(c, src) ==
    LET operand == get_value(src, c.regs)
    IN  IF operand.panic THEN [c EXCEPT !.status = "panicked"]
        ELSE LET r == overflowing_add(c.regs.acc, operand.val)
                 f1 == set_flag(c.flags, "zero", r.result = 0)
                 f2 == set_flag(f1, "carry", r.did_overflow)
                 f3 == clear_flag(f2, "subtract")
                 f4 == set_flag(f3, "half_carry",
                           BitAnd(r.result, 15) <= BitAnd(operand.val, 15))
             IN  [pc |-> c.pc + Width(src), flags |-> f4,
                  regs |-> write8(c.regs, "acc", r.result), status |-> c.status]

\* execute.rs: impl Executable for Add
Add_execute(c, src) ==
    LET operand == get_value(src, c.regs)
    IN  IF operand.panic THEN [c EXCEPT !.status = "panicked"]
        ELSE LET r == overflowing_add(c.regs.acc, operand.val)
                 f1 == set_flag(c.flags, "zero", r.result = 0)
                 f2 == set_flag(f1, "carry", r.did_overflow)
                 f3 == clear_flag(f2, "subtract")
                 f4 == set_flag(f3, "half_carry",
                           BitAnd(r.result, 15) < BitAnd(operand.val, 15))
             IN  [pc |-> c.pc + Width(src), flags |-> f4,
                  regs |-> write8(c.regs, "acc", r.result), status |-> c.status]

\* instructions_fn.rs: impl Executable for Add
Add_execute_fn(c, src) ==
    LET operand == get_value(src, c.regs)
    IN  IF operand.panic THEN [c EXCEPT !.status = "panicked"]
        ELSE LET r == overflowing_add(c.regs.acc, operand.val)
                 f1 == set_flag(c.flags, "zero", r.result = 0)
                 f2 == clear_flag(f1, "subtract")
                 f3 == set_flag(f2, "carry", r.did_overflow)
                 f4 == set_flag(f3, "half_carry",
                           BitAnd(r.result, 15) < BitAnd(operand.val, 15))
             IN  [pc |-> c.pc, flags |-> f4,
                  regs |-> write8(c.regs, "acc", r.result), status |-> c.status]

\* cpu/mod.rs: CpuState::step, whose body is commented out
CpuState_step(c) == c

---------------------------------------------------------------------------
(* Bounds and input sets.                                                  *)

MaxPc == 3
MaxSteps == 1

\* the program counter a long run of Add executions may start an execution at
MaxRunPc == 65536

Builds == {"instructions_fn", "execute"}

Sources(imms) ==
    {Reg(r) : r \in Reg8} \cup {Addr} \cup {Immediate(v) : v \in imms}

\* instruction streams: ADD imm 0x08; ADD A; ADD [HL] / ADD A; ADD imm 0x80;
\* ADD B / ADD [HL] / ADD B; an ADD imm cut short
Programs == {<<198, 8, 135, 134>>, <<135, 198, 128, 128>>, <<134>>, <<128, 198>>}

\* byte slices handed to the decoders: every leading byte, alone and with
\* trailing bytes; every second byte after a block-3 leading byte
TrailBytes == {0, 171, 255}
Slices ==
    {<< >>} \cup {<<o>> : o \in Byte}
    \cup {<<o, v>> : o \in Byte, v \in TrailBytes}
    \cup {<<o, v>> : o \in 192..255, v \in Byte}
    \cup {<<o, v, 1>> : o \in Byte, v \in TrailBytes}

\* the instructions a long run repeats: ADD B and ADD imm 0x00
RunInstrs == {AddInstr(Reg("b")), AddInstr(Immediate(0))}

\* seeds of the exhaustive Add runs
BSeeds == {225}
FlagSeeds == {0, 240}

\* values the register file is written with
RegBytes == {0, 202, 254}
RegWords == {256 * x + y : x \in RegBytes, y \in RegBytes}
SpWords == {0, 65280}

---------------------------------------------------------------------------
(* The CPU: construction, the flags API, decoding at the program counter,  *)
(* Add execution and step.                                                 *)

SetCpu(c) ==
    /\ pc' = c.pc
    /\ flags' = c.flags
    /\ regs' = c.regs
    /\ status' = c.status

\* the instruction stream from the program counter on
Fetch == SubSeq(bytes, pc + 1, Len(bytes))

\* CpuState::new()
Init ==
    /\ pc = 0
    /\ sp = 0
    /\ flags = Flags_new
    /\ regs = RawRegisters_new
    /\ status = "running"
    /\ bytes \in Programs
    /\ route = "none"
    /\ result = NoResult
    /\ steps = 0
    /\ build \in Builds

FlagsSet(v) ==
    /\ status = "running"
    /\ flags' = Flags_set(v)
    /\ UNCHANGED <<pc, sp, regs, status, bytes, route, result, steps, build>>

FlagsClear ==
    /\ status = "running"
    /\ flags' = Flags_clear
    /\ UNCHANGED <<pc, sp, regs, status, bytes, route, result, steps, build>>

FlagsSetFlag(f, val) ==
    /\ status = "running"
    /\ flags' = set_flag(flags, f, val)
    /\ UNCHANGED <<pc, sp, regs, status, bytes, route, result, steps, build>>

FlagsClearFlag(f) ==
    /\ status = "running"
    /\ flags' = clear_flag(flags, f)
    /\ UNCHANGED <<pc, sp, regs, status, bytes, route, result, steps, build>>

Returns(call) ==
    /\ route' = call.route
    /\ result' = call.res
    /\ status' = IF call.res.tag = "Panic" THEN "panicked" ELSE status

\* Instruction::from_bytes(slice) of mod.rs
FromBytes ==
    /\ status = "running"
    /\ build = "instructions_fn"
    /\ Returns(from_bytes(Fetch))
    /\ UNCHANGED <<pc, sp, flags, regs, bytes, steps, build>>

\* InstructionDecoder::from(slice[0]).decode(slice) of parsers.rs
ParsersDecode ==
    /\ status = "running"
    /\ build = "execute"
    /\ Fetch # << >>
    /\ LET decoder == InstructionDecoder_from(Fetch[1])
       IN  Returns(Call(decoder, InstructionDecoder_decode(decoder, Fetch)))
    /\ UNCHANGED <<pc, sp, flags, regs, bytes, steps, build>>

\* the decoded Add(src).execute(&mut state) of execute.rs
ExecuteAdd ==
    /\ status = "running"
    /\ build = "execute"
    /\ result.tag = "Ok"
    /\ pc < MaxPc
    /\ SetCpu(Add_execute(Cpu, result.src))
    /\ UNCHANGED <<sp, bytes, route, result, steps, build>>

\* the decoded Add(src).execute(&mut state) of instructions_fn.rs
ExecuteAddFn ==
    /\ status = "running"
    /\ build = "instructions_fn"
    /\ result.tag = "Ok"
    /\ SetCpu(Add_execute_fn(Cpu, result.src))
    /\ UNCHANGED <<sp, bytes, route, result, steps, build>>

\* state.step()
Step ==
    /\ status = "running"
    /\ steps < MaxSteps
    /\ steps' = steps + 1
    /\ SetCpu(CpuState_step(Cpu))
    /\ UNCHANGED <<sp, bytes, route, result, build>>

Next ==
    \/ \E v \in Byte : FlagsSet(v)
    \/ FlagsClear
    \/ \E f \in FlagNames, val \in BOOLEAN : FlagsSetFlag(f, val)
    \/ \E f \in FlagNames : FlagsClearFlag(f)
    \/ FromBytes
    \/ ParsersDecode
    \/ ExecuteAdd
    \/ ExecuteAddFn
    \/ Step

Spec == Init /\ [][Next]_vars

---------------------------------------------------------------------------
(* Add execution over every accumulator value and every operand.           *)

InitAdd ==
    /\ pc = MaxPc - 1
    /\ sp = 0
    /\ flags \in FlagSeeds
    /\ regs \in {[RawRegisters_new EXCEPT !.acc = a, !.b = b] : a \in Byte, b \in BSeeds}
    /\ status = "running"
    /\ bytes = << >>
    /\ route = "none"
    /\ result \in {AddInstr(src) : src \in Sources(Byte)}
    /\ steps = 0
    /\ build \in Builds

NextAdd ==
    \/ ExecuteAdd
    \/ ExecuteAddFn

SpecAdd == InitAdd /\ [][NextAdd]_vars

---------------------------------------------------------------------------
(* A long run of Add executions from the freshly constructed CPU. pc is a  *)
(* usize (cpu/mod.rs, line 9), at least 32 bits wide on the targets of the *)
(* crate: `state.pc += width` does not wrap within the bound of the run.   *)

\* the decoded Add(src).execute(&mut state) of execute.rs, run after run
ExecuteAddInRun ==
    /\ status = "running"
    /\ build = "execute"
    /\ result.tag = "Ok"
    /\ pc < MaxRunPc
    /\ SetCpu(Add_execute(Cpu, result.src))
    /\ UNCHANGED <<sp, bytes, route, result, steps, build>>

\* CpuState::new(), and the instruction the run repeats
InitRun ==
    /\ pc = 0
    /\ sp = 0
    /\ flags = Flags_new
    /\ regs = RawRegisters_new
    /\ status = "running"
    /\ bytes = << >>
    /\ route = "none"
    /\ result \in RunInstrs
    /\ steps = 0
    /\ build \in Builds

NextRun ==
    \/ ExecuteAddInRun
    \/ ExecuteAddFn

SpecRun == InitRun /\ [][NextRun]_vars

---------------------------------------------------------------------------
(* The decoders applied to a byte slice.                                   *)

\* ArithSource::from_opcode(slice[0])
FromOpcode ==
    /\ status = "running"
    /\ Fetch # << >>
    /\ result' = SourceOf(from_opcode(Fetch[1]))
    /\ UNCHANGED <<pc, sp, flags, regs, status, bytes, route, steps, build>>

InitDecode ==
    /\ pc = 0
    /\ sp = 0
    /\ flags = Flags_new
    /\ regs = RawRegisters_new
    /\ status = "running"
    /\ bytes \in Slices
    /\ route = "none"
    /\ result = NoResult
    /\ steps = 0
    /\ build \in Builds

NextDecode ==
    \/ FromBytes
    \/ ParsersDecode
    \/ FromOpcode

SpecDecode == InitDecode /\ [][NextDecode]_vars

---------------------------------------------------------------------------
(* The register file written by a host.                                    *)

Write8(r, val) ==
    /\ regs' = write8(regs, r, val)
    /\ UNCHANGED <<pc, sp, flags, status, bytes, route, result, steps, build>>

WritePair(p, val) ==
    /\ regs' = pair_set(regs, p, val)
    /\ UNCHANGED <<pc, sp, flags, status, bytes, route, result, steps, build>>

WriteSp(val) ==
    /\ regs' = set_sp(regs, val)
    /\ UNCHANGED <<pc, sp, flags, status, bytes, route, result, steps, build>>

InitRegs ==
    /\ pc = 0
    /\ sp = 0
    /\ flags = Flags_new
    /\ regs = RawRegisters_new
    /\ status = "running"
    /\ bytes = << >>
    /\ route = "none"
    /\ result = NoResult
    /\ steps = 0
    /\ build = "execute"

NextRegs ==
    \/ \E r \in Reg8, val \in RegBytes : Write8(r, val)
    \/ \E p \in Pairs, val \in RegWords : WritePair(p, val)
    \/ \E val \in SpWords : WriteSp(val)

SpecRegs == InitRegs /\ [][NextRegs]_vars

---------------------------------------------------------------------------
(* Helpers of the properties.                                              *)

\* TRUE iff the last decoder call on the slice returned (or aborted)
Decoded == result.tag \in {"Ok", "Err", "Panic"}

\* the value of a register or immediate operand in the current state
OperandOf(src) == IF src.kind = "Reg" THEN regs[src.reg] ELSE src.imm

\* the execution of the build: execute.rs or instructions_fn.rs
Executed(c, src) ==
    IF build = "execute" THEN Add_execute(c, src) ELSE Add_execute_fn(c, src)

\* what Add must leave for accumulator a and operand b
AddPost(c, a, b) ==
    LET r == (a + b) % 256
    IN  /\ c.status = "running"
        /\ c.regs.acc = r
        /\ flag_get(c.flags, "zero") <=> (r = 0)
        /\ flag_get(c.flags, "carry") <=> (a + b > 255)
        /\ flag_get(c.flags, "half_carry") <=> ((r % 16) < (b % 16))
        /\ ~flag_get(c.flags, "subtract")

---------------------------------------------------------------------------
\* C1: for every accumulator value a and operand value b in 0..255 and
\* whatever the flags held before, executing Add with a register or
\* immediate operand leaves Acc = (a+b) mod 256, Zero set iff the result is
\* 0, Carry set iff a+b > 255, Half-Carry set iff (result & 0xF) < (b & 0xF)
\* and Subtract clear, also when the operand register is Acc itself. Stated
\* of the execution that is about to run in each reachable state, and of
\* every execution step taken.
C1_AddSemantics ==
    /\ [](result.tag = "Ok" /\ result.src.kind \in {"Reg", "Immediate"} /\ status = "running"
            => AddPost(Executed(Cpu, result.src), regs.acc, OperandOf(result.src)))
    /\ [][(ExecuteAdd \/ ExecuteAddFn) /\ result.src.kind \in {"Reg", "Immediate"}
            => AddPost(Cpu', regs.acc, OperandOf(result.src))]_vars

\* an Add of the accumulator to itself has run: 0xE1 + 0xE1 = 0x1C2
C1_Witness ==
    /\ result = AddInstr(Reg("acc"))
    /\ regs.acc = 194
    /\ flags = 16

---------------------------------------------------------------------------
\* C2: from any program-counter value, executing Add with a register or
\* HL-indirect operand advances the program counter by exactly 1, and with
\* an immediate operand by exactly 2.
C2_PcAdvance ==
    [][(ExecuteAdd \/ ExecuteAddFn) => pc' = pc + Width(result.src)]_vars

---------------------------------------------------------------------------
\* block 3, low three bits 0b110: the immediate-operand arithmetic opcodes
IsArithImmediate(opcode) == opcode \div 64 = 3 /\ opcode % 8 = 6

\* C3 as claimed: a one-byte slice holding an immediate-operand arithmetic
\* opcode decodes to the error Invalid without aborting, and the same opcode
\* followed by a byte v decodes to Add(Immediate(v)).
C3_Original ==
    (Decoded /\ bytes # << >> /\ IsArithImmediate(bytes[1])) =>
        /\ Len(bytes) = 1 => (result = ErrInvalid /\ status = "running")
        /\ Len(bytes) = 2 => result = AddInstr(Immediate(bytes[2]))

\* C3 amended: a one-byte slice holding an immediate-operand arithmetic
\* opcode decodes to the error Invalid without aborting, and the Add opcode
\* 0xC6 followed by a byte v decodes to Add(Immediate(v)).
C3_ImmediateDecode ==
    (Decoded /\ bytes # << >> /\ IsArithImmediate(bytes[1])) =>
        /\ Len(bytes) = 1 => (result = ErrInvalid /\ status = "running")
        /\ (Len(bytes) = 2 /\ bytes[1] = 198) => result = AddInstr(Immediate(bytes[2]))

\* [0xC6] alone was decoded by parsers.rs and answered with Invalid
C3_Witness ==
    /\ bytes = <<198>>
    /\ build = "execute"
    /\ result = ErrInvalid
    /\ status = "running"

---------------------------------------------------------------------------
\* the register-encoding table, in the order of the low three bits
SourceTable ==
    <<Reg("b"), Reg("c"), Reg("d"), Reg("e"), Reg("h"), Reg("l"), Addr, Reg("acc")>>

\* C4: the operand source from_opcode builds depends only on the low three
\* bits of the opcode and is, for 0..7, B, C, D, E, H, L, indirect via HL,
\* Acc; decoding the block-2 Add opcode 0x80+k yields Add of the k-th source.
C4_SourceTable ==
    /\ result.tag = "Source" => result.src = SourceTable[(bytes[1] % 8) + 1]
    /\ (Decoded /\ bytes # << >> /\ bytes[1] \in 128..135)
          => result = AddInstr(SourceTable[bytes[1] - 128 + 1])

\* 0x86 was decoded to Add of the HL-indirect source
C4_Witness ==
    /\ bytes = <<134>>
    /\ result = AddInstr(Addr)

---------------------------------------------------------------------------
\* C5: for every leading byte the classifier selects exactly one decode
\* path: the prefixed path iff the byte is 0xCB, otherwise the block named by
\* its two most-significant bits; no leading byte is left unrouted.
C5_Routing ==
    /\ route # "none" =>
          /\ bytes # << >>
          /\ route = IF bytes[1] = 203 THEN "Prefixed"
                     ELSE BlockName(bytes[1] \div 64)
    /\ (Decoded /\ bytes # << >>) => route # "none"

\* the prefix byte was routed to the prefixed decoder by parsers.rs
C5_Witness ==
    /\ bytes # << >>
    /\ bytes[1] = 203
    /\ build = "execute"
    /\ route = "Prefixed"

---------------------------------------------------------------------------
\* C6: for every byte slice, decoding ends by returning an Instruction or a
\* decode error and never reaches an abort, also for the prefix byte and for
\* the opcodes this core does not implement.
C6_NeverAborts == Decoded => (result.tag \in {"Ok", "Err"} /\ status = "running")

---------------------------------------------------------------------------
\* C7: in every state reachable from a freshly constructed CpuState by any
\* sequence of set(byte), clear(), set_<flag>(bool), clear_<flag>() and Add
\* executions, bits 3..0 of the flags byte are zero; set(v) stores v & 0xF0,
\* the byte v with its low nibble zeroed, for every byte v.
C7_LowNibbleZero ==
    /\ flags \in Byte
    /\ flags % 16 = 0
    /\ \A v \in Byte : Flags_set(v) = 16 * (v \div 16)

\* an Add has run and the flags were then written: all four flags are set
C7_Witness ==
    /\ regs.acc = 8
    /\ flags = 240

---------------------------------------------------------------------------
\* the words a pair is written with where the register file is fresh
Word == 0..U16Max

\* what a pair written with v must read back
PairWritten(rs, p, v) ==
    LET after == pair_set(rs, p, v)
    IN  /\ read8(after, High(p)) = v \div 256
        /\ read8(after, Low(p)) = v % 256
        /\ pair_get(after, p) = v

\* C8: for each pair BC, DE, HL and every 16-bit value v, after writing v
\* through the pair setter the high register reads v >> 8, the low register
\* reads v & 0xFF and the pair reads v; after writing bytes x and y to the
\* high and low registers the pair reads x*256 + y; after any sequence of
\* register writes. Stated of the writes made next in each reachable state.
C8_PairRoundTrip ==
    /\ \A p \in Pairs : pair_get(regs, p) = 256 * regs[High(p)] + regs[Low(p)]
    /\ \A p \in Pairs, v \in RegWords : PairWritten(regs, p, v)
    /\ regs = RawRegisters_new => \A p \in Pairs, v \in Word : PairWritten(regs, p, v)
    /\ \A p \in Pairs, x \in RegBytes, y \in RegBytes :
          pair_get(write8(write8(regs, High(p), x), Low(p), y), p) = 256 * x + y

\* BC was written with 0xCAFE (or B with 0xCA and C with 0xFE)
C8_Witness ==
    /\ regs.b = 202
    /\ regs.c = 254
    /\ pair_get(regs, "bc") = 51966
    /\ regs.h = 254

---------------------------------------------------------------------------
\* the instruction the build's decoder finds in a slice
DecodedAt(bs) ==
    IF build = "instructions_fn" THEN from_bytes(bs).res
    ELSE IF bs = << >> THEN ErrInvalid
    ELSE InstructionDecoder_decode(InstructionDecoder_from(bs[1]), bs)

\* C9: each call of step on a CPU state whose program counter addresses a
\* supported Add instruction fetches, decodes and executes that instruction:
\* after the call Acc, the flags and the program counter are those of
\* executing the decoded instruction on the state before the call.
C9_StepExecutes ==
    [][steps' = steps + 1 =>
          LET d == DecodedAt(Fetch)
          IN  (d.tag = "Ok" /\ d.src.kind \in {"Reg", "Immediate"})
                  => Cpu' = Executed(Cpu, d.src)]_vars

---------------------------------------------------------------------------
\* the bit the claim gives each flag
ClaimedBit(f) ==
    CASE f = "zero" -> 7
      [] f = "subtract" -> 6
      [] f = "half_carry" -> 5
      [] f = "carry" -> 4

BitIsSet(fl, pos) == (fl \div 2^pos) % 2 = 1

OthersKept(before, after, f) ==
    \A o \in FlagNames \ {f} :
        /\ flag_get(after, o) = flag_get(before, o)
        /\ BitIsSet(after, ClaimedBit(o)) = BitIsSet(before, ClaimedBit(o))

\* C10: for each flag f among Zero (bit 7), Subtract (bit 6), Half-Carry
\* (bit 5) and Carry (bit 4), from any flags value, set_f(v) makes the getter
\* of f return v and clear_f() makes it return false, both leaving the other
\* three flags unchanged; clear() makes all four getters return false.
\* Stated of the calls made next in each reachable state.
C10_FlagFrame ==
    /\ \A f \in FlagNames, val \in BOOLEAN :
          LET after == set_flag(flags, f, val)
          IN  /\ flag_get(after, f) = val
              /\ BitIsSet(after, ClaimedBit(f)) = val
              /\ OthersKept(flags, after, f)
    /\ \A f \in FlagNames :
          LET after == clear_flag(flags, f)
          IN  /\ ~flag_get(after, f)
              /\ ~BitIsSet(after, ClaimedBit(f))
              /\ OthersKept(flags, after, f)
    /\ \A f \in FlagNames : ~flag_get(Flags_clear, f)

\* Subtract and Carry are set, Zero and Half-Carry are not
C10_Witness ==
    /\ flags = 80
    /\ flag_get(flags, "subtract")
    /\ flag_get(flags, "carry")
    /\ ~flag_get(flags, "zero")

---------------------------------------------------------------------------
\* an opcode the claim counts as taking no immediate operand: block 2, or
\* block 3 with low three bits other than 0b110
TakesNoImmediate(opcode) ==
    \/ opcode \div 64 = 2
    \/ (opcode \div 64 = 3 /\ opcode % 8 # 6)

\* C11: the decoder reports the error Invalid only when the byte slice is
\* shorter than the instruction it starts (the empty slice, or an
\* immediate-operand arithmetic opcode alone); a slice of one byte holding an
\* opcode that takes no immediate operand is never answered with Invalid.
C11_InvalidOnlyWhenShort ==
    /\ (Decoded /\ result = ErrInvalid) =>
          \/ bytes = << >>
          \/ (Len(bytes) = 1 /\ IsArithImmediate(bytes[1]))
    /\ (Decoded /\ Len(bytes) = 1 /\ TakesNoImmediate(bytes[1])) => result # ErrInvalid

---------------------------------------------------------------------------
\* C12: for every accumulator value a and operand b in 0..255, with
\* result = (a+b) mod 256, the comparison (result & 0xF) < (b & 0xF) that Add
\* stores in the Half-Carry flag is true exactly when the addition carries
\* out of bit 3, i.e. exactly when (a & 0xF) + (b & 0xF) > 0xF. Stated of the
\* execution that is about to run in each reachable state.
C12_HalfCarryIsNibbleCarry ==
    (result.tag = "Ok" /\ result.src.kind \in {"Reg", "Immediate"} /\ status = "running") =>
        LET a == regs.acc
            b == OperandOf(result.src)
            after == Executed(Cpu, result.src)
            nibble_carry == (a % 16) + (b % 16) > 15
        IN  /\ after.regs.acc = (a + b) % 256
            /\ (BitAnd(after.regs.acc, 15) < BitAnd(b, 15)) <=> nibble_carry
            /\ flag_get(after.flags, "half_carry") <=> nibble_carry

\* 0x01 + 0x0F = 0x10 has run: a carry out of bit 3 and none out of bit 7
C12_Witness ==
    /\ result = AddInstr(Immediate(15))
    /\ regs.acc = 16
    /\ flags = 32

---------------------------------------------------------------------------
\* C13: executing Add with the HL-indirect operand completes without
\* aborting and uses as operand the byte at the address held in HL; with
\* Acc = 0, HL = 0x0000 and a zero byte at that address, Acc stays 0x00 and
\* the Zero flag is set.
C13_IndirectCompletes ==
    [][((ExecuteAdd \/ ExecuteAddFn) /\ result.src.kind = "Addr") =>
          /\ status' = "running"
          /\ (regs.acc = 0 /\ pair_get(regs, "hl") = 0) =>
                (regs'.acc = 0 /\ flag_get(flags', "zero"))]_vars

---------------------------------------------------------------------------
\* C14: the two snapshots of Add execution (execute.rs and
\* instructions_fn.rs), run from the same CPU state with the same register
\* or immediate operand, end in the same observable state: same Acc, same
\* four flags, same program counter, same other registers, for every state
\* and operand.
C14_SnapshotsAgree ==
    (result.tag = "Ok" /\ result.src.kind \in {"Reg", "Immediate"} /\ status = "running") =>
        LET by_execute == Add_execute(Cpu, result.src)
            by_fn == Add_execute_fn(Cpu, result.src)
        IN  /\ by_execute.regs = by_fn.regs
            /\ by_execute.flags = by_fn.flags
            /\ by_execute.pc = by_fn.pc
            /\ by_execute.status = by_fn.status

---------------------------------------------------------------------------
\* C15: the program counter is a 16-bit value: starting from the all-zero
\* initial CPU state, after any sequence of executed Add instructions the
\* program counter stays within 0..0xFFFF (an advance past 0xFFFF wraps
\* modulo 65536 rather than producing a larger value).
C15_PcSixteenBit == pc \in 0..U16Max

=============================================================================
